---- MODULE Spec2Model ----
(***************************************************************************)
(* Model of the release resolver of actions-toolkit                        *)
(* (internal/github/action_releases.go): the process-wide release cache,   *)
(* its reader/writer lock, the version classifier and the two resolver     *)
(* entry points GetLatestRelease and GetLatestReleaseWithSHA, run by       *)
(* concurrent callers against an external release-lookup collaborator;     *)
(* and of the processor package's pure helpers (version classification,    *)
(* the comment rewriter), each applied to inputs drawn from bounded sets;  *)
(* and of the file processor (PinAllActions, PinAction, UpdateAction)      *)
(* run over one workflow file, calling the resolver as one of its callers. *)
(*                                                                         *)
(* Strings are sequences of one-character strings, so that the classifier  *)
(* is computed character by character as the Go code computes it.          *)
(***************************************************************************)
EXTENDS Integers, Sequences, FiniteSets, TLC

\* ---------------------------------------------------------------- bounds
\* resolver calls made in one run, all callers together
MaxCalls == 2
\* length of the short version tokens handed to the classifier
MaxTokenLen == 3
\* words in the comment of a line handed to the comment rewriter
MaxWords == 2
\* changes of the external repository state during a run
MaxPublish == 1

\* lines of a workflow file handed to the file processor
MaxLines == 2
\* files of a sweep over several files
MaxFiles == 2

\* the concurrent callers of the resolver
Procs == { 1, 2 }

\* ------------------------------------------------------- string helpers
Empty == << >>

\* strings.HasPrefix(s, "v")
HasPrefixV(s) == Len(s) > 0 /\ s[1] = "v"

\* strings.Contains(s, c) for a one-character c
Contains(s, c) == \E i \in 1..Len(s) : s[i] = c

\* index of the first c in s, 0 when there is none (strings.Index)
RECURSIVE IndexFrom(_, _, _)
IndexFrom(s, c, i) ==
    IF i > Len(s) THEN 0
    ELSE IF s[i] = c THEN i
    ELSE IndexFrom(s, c, i + 1)

Index(s, c) == IndexFrom(s, c, 1)

\* strings.SplitN(s, c, n) for n >= 1: at most n pieces, the last one
\* holding the unsplit rest; strings.Split is SplitN with no limit
RECURSIVE SplitN(_, _, _)
SplitN(s, c, n) ==
    IF n = 1 \/ Index(s, c) = 0 THEN << s >>
    ELSE << SubSeq(s, 1, Index(s, c) - 1) >>
         \o SplitN(SubSeq(s, Index(s, c) + 1, Len(s)), c, n - 1)

Split(s, c) == SplitN(s, c, Len(s) + 1)

\* strings.Index(s, sub) for a non-empty sub: the place where sub first
\* occurs in s, 0 when it does not occur
IndexOf(s, sub) ==
    LET hits == { i \in 1..(Len(s) - Len(sub) + 1) :
                    SubSeq(s, i, i + Len(sub) - 1) = sub }
    IN  IF hits = {} THEN 0
        ELSE CHOOSE i \in hits : \A j \in hits : i <= j

\* strings.Contains(s, sub)
ContainsSub(s, sub) == IndexOf(s, sub) # 0

\* strings.HasPrefix(s, prefix)
HasPrefix(s, prefix) ==
    Len(s) >= Len(prefix) /\ SubSeq(s, 1, Len(prefix)) = prefix

\* strings.Replace(s, old, by, 1)
ReplaceFirst(s, old, by) ==
    LET i == IndexOf(s, old)
    IN  IF i = 0 THEN s
        ELSE SubSeq(s, 1, i - 1) \o by \o SubSeq(s, i + Len(old), Len(s))

\* strings.ReplaceAll(s, old, by)
RECURSIVE ReplaceAll(_, _, _)
ReplaceAll(s, old, by) ==
    LET i == IndexOf(s, old)
    IN  IF i = 0 THEN s
        ELSE SubSeq(s, 1, i - 1) \o by
             \o ReplaceAll(SubSeq(s, i + Len(old), Len(s)), old, by)

HexChars == {"0","1","2","3","4","5","6","7","8","9",
             "a","b","c","d","e","f","A","B","C","D","E","F"}

\* regexp.MatchString("^[0-9a-fA-F]+$", s)
MatchHex(s) == Len(s) > 0 /\ \A i \in 1..Len(s) : s[i] \in HexChars

\* ------------------------------------------------------------ classifier
\* getBaseActionName keeping the sub-path
getBaseActionNameWhole(actionName) == actionName

\* getBaseActionName: org/repo of org/repo/optional_subpath
getBaseActionName(actionName) ==
    LET parts == SplitN(actionName, "/", 3)
    IN  IF Len(parts) < 2 THEN actionName
        ELSE parts[1] \o << "/" >> \o parts[2]

\* isMajorVersionConstraint without the check for a commit SHA
isMajorVersionConstraintNoSHA(version) ==
    IF version = Empty THEN FALSE
    ELSE LET versionStr == IF HasPrefixV(version) THEN Tail(version)
                           ELSE version
         IN  ~ Contains(versionStr, ".")

\* isMajorVersionConstraint of the github package
isMajorVersionConstraint(version) ==
    IF version = Empty THEN FALSE
    ELSE IF Len(version) = 40 /\ MatchHex(version) THEN FALSE
    ELSE LET versionStr == IF HasPrefixV(version) THEN Tail(version)
                           ELSE version
         IN  ~ Contains(versionStr, ".")

\* extractMajorVersion that does not put the 'v' back
extractMajorVersionNoPrefix(version) ==
    IF version = Empty THEN Empty
    ELSE LET versionStr == IF HasPrefixV(version) THEN Tail(version)
                           ELSE version
             parts == Split(versionStr, ".")
         IN  IF Len(parts) = 0 THEN version
             ELSE parts[1]

\* extractMajorVersion of the github package
extractMajorVersion(version) ==
    IF version = Empty THEN Empty
    ELSE LET versionStr == IF HasPrefixV(version) THEN Tail(version)
                           ELSE version
             parts == Split(versionStr, ".")
         IN  IF Len(parts) = 0 THEN version
             ELSE IF HasPrefixV(version) THEN << "v" >> \o parts[1]
             ELSE parts[1]

\* ---------------------------------------------------- processor package
\* isHexString: regexp.MatchString("^[0-9a-fA-F]+$", s)
isHexString(s) == MatchHex(s)

\* isSHA := len(currentVersion) == 40 && isHexString(currentVersion)
isSHA(version) == Len(version) = 40 /\ isHexString(version)

Digits == {"0","1","2","3","4","5","6","7","8","9"}

\* IsVersionNumber: after one leading 'v', digits and dots only, and at
\* least one dot
IsVersionNumber(str) ==
    LET t == IF HasPrefixV(str) THEN Tail(str) ELSE str
    IN  /\ \A i \in 1..Len(t) : t[i] \in Digits \/ t[i] = "."
        /\ Contains(t, ".")

\* isMajorVersionConstraint of the processor package
processorIsMajorVersionConstraint(version) ==
    IF version = Empty THEN FALSE
    ELSE LET versionStr == IF HasPrefixV(version) THEN Tail(version)
                           ELSE version
         IN  ~ Contains(versionStr, ".")

\* whitespace as unicode.IsSpace sees it, of the characters a line has
IsSpace(c) == c \in { " ", "\t" }

\* TrimRight that trims nothing
TrimRightNone(str, c) == str

\* strings.TrimRight(str, c) for a one-character cutset
RECURSIVE TrimRight(_, _)
TrimRight(str, c) ==
    IF Len(str) > 0 /\ str[Len(str)] = c
    THEN TrimRight(SubSeq(str, 1, Len(str) - 1), c)
    ELSE str

\* strings.TrimSpace
RECURSIVE TrimSpace(_)
TrimSpace(str) ==
    IF Len(str) > 0 /\ IsSpace(str[1]) THEN TrimSpace(Tail(str))
    ELSE IF Len(str) > 0 /\ IsSpace(str[Len(str)])
    THEN TrimSpace(SubSeq(str, 1, Len(str) - 1))
    ELSE str

\* the length of the run of non-space characters str begins with
RECURSIVE FieldLen(_)
FieldLen(str) ==
    IF str = Empty \/ IsSpace(str[1]) THEN 0 ELSE 1 + FieldLen(Tail(str))

\* strings.Fields
RECURSIVE Fields(_)
Fields(str) ==
    IF str = Empty THEN << >>
    ELSE IF IsSpace(str[1]) THEN Fields(Tail(str))
    ELSE << SubSeq(str, 1, FieldLen(str)) >>
         \o Fields(SubSeq(str, FieldLen(str) + 1, Len(str)))

\* strings.Join
RECURSIVE Join(_, _)
Join(elems, sep) ==
    IF elems = << >> THEN Empty
    ELSE IF Len(elems) = 1 THEN elems[1]
    ELSE elems[1] \o sep \o Join(Tail(elems), sep)

\* the test of the loop of case 3 of updateVersionComment
LoopFinds(part) ==
    (HasPrefixV(part) /\ IsVersionNumber(Tail(part))) \/ IsVersionNumber(part)

\* the index the loop of case 3 breaks at, 0 when it runs to the end
RECURSIVE LoopFrom(_, _)
LoopFrom(commentParts, i) ==
    IF i > Len(commentParts) THEN 0
    ELSE IF LoopFinds(commentParts[i]) THEN i
    ELSE LoopFrom(commentParts, i + 1)

updateVersionComment(ln, ver) ==
    LET parts == SplitN(ln, "#", 2)
        baseContent == TrimRight(parts[1], " ")
        hash == << " ", "#", " " >>
        sp == << " " >>
    IN  IF Len(parts) <= 1 THEN baseContent \o hash \o ver
        ELSE
        LET commentText == TrimSpace(parts[2])
            commentParts == Fields(commentText)
        IN  IF Len(commentParts) > 0
            THEN IF HasPrefixV(commentParts[1])
                    \/ IsVersionNumber(commentParts[1])
                 THEN IF Len(commentParts) > 1
                      THEN baseContent \o hash \o ver \o sp
                           \o Join(Tail(commentParts), sp)
                      ELSE baseContent \o hash \o ver
                 ELSE IF Contains(commentParts[1], "@")
                 THEN LET pinParts == Split(commentParts[1], "@")
                      IN  IF Len(pinParts) = 2
                          THEN IF Len(commentParts) > 1
                               THEN baseContent \o hash \o pinParts[1]
                                    \o << "@" >> \o ver \o sp
                                    \o Join(Tail(commentParts), sp)
                               ELSE baseContent \o hash \o pinParts[1]
                                    \o << "@" >> \o ver
                          ELSE baseContent \o hash \o ver \o sp \o commentText
                 ELSE LET i == LoopFrom(commentParts, 1)
                      IN  IF i # 0
                          THEN baseContent \o hash
                               \o Join([commentParts EXCEPT ![i] = ver], sp)
                          ELSE baseContent \o hash \o ver \o sp \o commentText
            ELSE baseContent \o hash \o ver

\* ------------------------------------------------------------- constants
\* Action names and version tokens the callers pass, shortened: a/c and
\* b/d stand for owner/repo names such as actions/checkout, a/c/s for one
\* with a sub-path, x for a name that does not split in two; v4 and 5 are
\* major constraints, v4.4.0 a semantic version, SHA1..SHA3 commit SHAs of
\* 40 hex characters, main a branch name in a release's target commitish.
NameAC == << "a", "/", "c" >>
NameACSub == << "a", "/", "c", "/", "s" >>
NameBD == << "b", "/", "d" >>
NameBad == << "x" >>
Names == { NameAC, NameACSub, NameBD, NameBad }

V4 == << "v", "4" >>
Bare5 == << "5" >>
V440 == << "v", "4", ".", "4", ".", "0" >>
V500 == << "v", "5", ".", "0", ".", "0" >>
Bare50 == << "5", ".", "0" >>
SHA1 == [i \in 1..40 |-> "a"]
SHA2 == [i \in 1..40 |-> IF i = 1 THEN "b" ELSE "0"]
SHA3 == [i \in 1..40 |-> IF i = 1 THEN "c" ELSE "1"]
Main == << "m", "a", "i", "n" >>
Versions == { V4, Bare5, V440, SHA1 }

\* Version tokens handed to the classifier: every string of at most
\* MaxTokenLen characters over v, 4, '.' and x, and longer ones around the
\* 40 characters of a commit SHA: 40 hex letters, 40 digits, 39 and 41 hex
\* characters, 40 characters one of which is no hex digit or is a dot
TokenChars == { "v", "4", ".", "x" }

ShortTokens == UNION { [1..n -> TokenChars] : n \in 0..MaxTokenLen }

Digits40 == [i \in 1..40 |-> "4"]
Hex39 == [i \in 1..39 |-> "a"]
Hex41 == [i \in 1..41 |-> "a"]
NotHex40 == [i \in 1..40 |-> IF i = 7 THEN "x" ELSE "a"]
Dotted40 == [i \in 1..40 |-> IF i = 2 THEN "." ELSE "4"]

Tokens == ShortTokens \cup { SHA1, Digits40, Hex39, Hex41, NotHex40, Dotted40,
                             Main, V440, Bare50 }

Funcs == { "GetLatestRelease", "GetLatestReleaseWithSHA" }

\* the calls the callers make: (entry point, actionName, currentVersion)
CallArgs ==
    ({ "GetLatestReleaseWithSHA" } \X { NameAC } \X Versions)
    \cup ({ "GetLatestReleaseWithSHA" } \X { NameACSub } \X { V4 })
    \cup ({ "GetLatestReleaseWithSHA" } \X { NameBD } \X { Bare5 })
    \cup ({ "GetLatestReleaseWithSHA" } \X { NameBad } \X { V4 })
    \cup ({ "GetLatestRelease" } \X { NameAC } \X { V4, V440 })

\* Lines handed to the comment rewriter: a code part, blanks, and possibly
\* a '#' with a comment of at most MaxWords words, separated by one blank,
\* two blanks or a tab, with blanks around.  The words: v1.2 and 1.2
\* (semantic versions), 4 (a bare major number), very and ok (words),
\* p@v1 and vp@1 (pin-style annotations), a@b@c (two '@').
CodePart == << "u", "@", "1" >>

WV12 == << "v", "1", ".", "2" >>
W12 == << "1", ".", "2" >>
W4 == << "4" >>
WVery == << "v", "e", "r", "y" >>
WOk == << "o", "k" >>
WPin == << "p", "@", "v", "1" >>
WVPin == << "v", "p", "@", "1" >>
WTwoAt == << "a", "@", "b", "@", "c" >>

CommentWords == { WV12, W12, W4, WVery, WOk, WPin, WVPin, WTwoAt }

WordSeqs == UNION { [1..n -> CommentWords] : n \in 0..MaxWords }

Blanks == { Empty, << " " >>, << " ", " " >> }

Separators == { << " " >>, << " ", " " >>, << "\t" >> }

\* the display versions: a semantic version, a major constraint, a bare
\* major number
DisplayVersions == { V440, V4, Bare5 }

\* a line with the comment c, pad before the '#', lead and trail around
\* the comment text
CommentLine(pad, lead, c, trail) ==
    CodePart \o pad \o << "#" >> \o lead \o Join(c.words, c.sep) \o trail

\* a line without a comment
PlainLine(pad) == CodePart \o pad

\* The workflow files handed to the file processor.  A file is a list of
\* step lines "- uses: <reference>", some with a version comment.  The
\* references name a/c at main (a floating branch), at ma (a token that
\* main begins with), at v4 (a major constraint, which v4.4.0 begins
\* with), at v4.4.0 (a semantic version) and at SHA1 and SHA2 (pins).
UsesKey == << "u", "s", "e", "s", ":", " " >>

At == << "@" >>

RefTo(name, version) == name \o At \o version

Ma == << "m", "a" >>

\* the comments: a version, a pin-style annotation, a full version
NoteV4 == << " ", "#", " " >> \o V4

NotePin == << " ", "#", " ", "p", "@" >> \o V4

NoteV440 == << " ", "#", " " >> \o V440

StepLine(ref, note) == << "-", " " >> \o UsesKey \o ref \o note

FileLines ==
    { StepLine(RefTo(NameAC, Main), Empty),
      StepLine(RefTo(NameAC, Ma), Empty),
      StepLine(RefTo(NameAC, V4), Empty),
      StepLine(RefTo(NameAC, V4), NotePin),
      StepLine(RefTo(NameAC, V440), NoteV440),
      StepLine(RefTo(NameAC, SHA1), NoteV4),
      StepLine(RefTo(NameAC, SHA2), Empty),
      StepLine(RefTo(NameAC, SHA2), << " ", "#", " " >> \o RefTo(NameAC, V4)) }

Files == UNION { [1..n -> FileLines] : n \in 1..MaxLines }

\* a line that is no YAML: a flow sequence that is never closed
BrokenLine == << "[" >>

\* the files of a sweep over several files
SweepFiles ==
    { << StepLine(RefTo(NameAC, V4), Empty) >>,
      << StepLine(RefTo(NameAC, SHA2), Empty) >>,
      << BrokenLine >> }

\* what the file system does to the files of a sweep: at most one of them
\* cannot be opened for reading ("read") or for writing ("write")
FaultsOf(n) ==
    { [i \in 1..n |-> "none"] }
    \cup { [i \in 1..n |-> IF i = k THEN ft ELSE "none"] :
             k \in 1..n, ft \in { "read", "write" } }

\* the sweeps: one file of step lines, or up to MaxFiles short files
Sweeps ==
    { [files |-> << f >>, faults |-> << "none" >>] : f \in Files }
    \cup UNION { { [files |-> fs, faults |-> ft] :
                     fs \in [1..n -> SweepFiles], ft \in FaultsOf(n) } :
                 n \in 1..MaxFiles }

\* an operation of the file processor and its arguments
Job(op, name, version, write) ==
    [op |-> op, name |-> name, version |-> version, write |-> write]

NoJob == Job("none", Empty, Empty, FALSE)

\* the version asked for on the command line of pin
PinVersions == { V440 }

\* ------------------------------------------------- external collaborator
\* What the hosting API answers for one repository: the outcome of
\* Repositories.GetLatestRelease (rel, tag, commitish) and of Git.GetRef
\* (ref, refsha).  rel: "ok", "notfound" (404), "error" (any other error),
\* "notag" (a release without tag name).
Repo(rel, tag, commitish, ref, refsha) ==
    [rel |-> rel, tag |-> tag, commitish |-> commitish,
     ref |-> ref, refsha |-> refsha]

RepoPublished == Repo("ok", V500, Main, "ok", SHA2)

RepoStateBD == Repo("ok", Bare50, Main, "ok", SHA3)

RepoStatesAC ==
    { Repo("notfound", Empty, Empty, "error", Empty),
      Repo("error", Empty, Empty, "error", Empty),
      Repo("notag", Empty, Main, "error", Empty),
      Repo("ok", V440, Main, "ok", SHA1),
      Repo("ok", V440, Main, "error", Empty),
      Repo("ok", V440, Main, "ok", Empty),
      Repo("ok", V440, Empty, "ok", Empty),
      RepoPublished }


Repos == { NameAC, NameBD }

\* ----------------------------------------------------------------- state
VARIABLES
    releaseCache,     \* var releaseCache: base action name -> ReleaseInfo
    readers,          \* cacheMutex: callers holding the read lock
    writer,           \* cacheMutex: caller holding the write lock, 0 = none
    world,            \* the hosting API's state of each repository
    published,        \* changes of world so far
    pc,               \* each caller's position in the code
    fn,               \* entry point the caller is in
    actionName,       \* argument actionName
    currentVersion,   \* argument currentVersion
    baseActionName,   \* local baseActionName of the entry point
    info,             \* info, found of the first cache read
    found,
    info2,            \* info, found of the read after the API call
    found2,
    release,          \* getLatestReleaseWithClient: release, resp, err of
                      \*   the release lookup
    clientBase,       \* its baseActionName, fullVersion, majorVersion, sha
    fullVersion,
    majorVersion,
    sha,
    clientRet,        \* what getLatestReleaseWithClient returned
    result,           \* what the entry point returned
    calls,            \* external calls made by the current invocation
    ncalls,           \* invocations started so far
    quiet,            \* history: no other caller stored and the world did
                      \*   not change since the caller's current call began
    prev,             \* history: arguments and result of the caller's
                      \*   latest finished call, NoPrev once another caller
                      \*   stored or the world changed since it began
    prevRes,          \* history: prev's result, while the caller runs the
                      \*   same call again and still nothing else interfered
    stored,           \* history: the current call has written the cache
    token,            \* classifier: the version token under classification
    class,            \* classifier: the verdicts of the predicates on token
    extracted,        \* classifier: latest result of extractMajorVersion
    extracts,         \* classifier: times extractMajorVersion was applied
    line,             \* updateVersionComment: argument line
    display,          \* updateVersionComment: argument version
    comment,          \* history: the words of the line's comment and what
                      \*   separates them, as the line was written
    out,              \* updateVersionComment: the latest result
    passes,           \* times updateVersionComment was applied
    job,              \* file processor: the operation under way
    disk,             \* the workflow files on disk, each as its lines
    faults,           \* what the file system does to each file: "none",
                      \*   "read" (it cannot be read), "write" (it cannot
                      \*   be written)
    original,         \* history: the files before the operation
    fileIdx,          \* place in files of the loop over the files
    contentStr,       \* local contentStr, as lines
    contentModified,  \* local contentModified
    usesIdx,          \* place in usesValues of the loop over the uses values
    actionsToUpdate,  \* PinAction: local actionsToUpdate
    latestSHA,        \* PinAction: local latestSHA
    asked,            \* history: the resolver calls of the operation, as
                      \*   (place of the file, place of the uses value,
                      \*   actionName, version), places 0 for PinAction's
                      \*   call before the files
    answers,          \* history: what the resolver returned, as (place of
                      \*   the file, place of the uses value, result)
    ppc               \* the file processor's position in the code

locks == << readers, writer >>
args == << fn, actionName, currentVersion, baseActionName >>
locals == << info, found, info2, found2, release, clientBase, fullVersion,
             majorVersion, sha, clientRet >>
hist == << quiet, prev, prevRes, stored >>
classifier == << token, class, extracted, extracts >>
commenter == << line, display, comment, out, passes >>
processor == << job, disk, faults, original, fileIdx, contentStr,
               contentModified, usesIdx, actionsToUpdate, latestSHA, asked,
               answers, ppc >>
tools == << classifier, commenter, processor >>
vars == << releaseCache, locks, world, published, tools, pc, args, locals,
           result, calls, ncalls, hist >>

\* the zero value of ReleaseInfo
ZeroInfo == [MajorVersion |-> Empty, FullVersion |-> Empty, SHA |-> Empty]

NoRelease == Repo("none", Empty, Empty, "none", Empty)

\* a (version, sha, err) triple; err is "nil", "transport" or "ref"
Ret(version, s, err) == [version |-> version, sha |-> s, err |-> err]

NoRet == Ret(Empty, Empty, "none")

NoPrev == [fn |-> "none", actionName |-> Empty, currentVersion |-> Empty,
           res |-> NoRet]

\* no verdict yet
NoClass == [done |-> FALSE, CommitSHA |-> FALSE, MajorConstraint |-> FALSE,
            ProcessorMajorConstraint |-> FALSE, SemanticVersion |-> FALSE]

\* the classifier has been given nothing
ClassifierIdle ==
    /\ token = Empty
    /\ class = NoClass
    /\ extracted = Empty
    /\ extracts = 0

NoComment == [words |-> << >>, sep |-> Empty]

\* the comment rewriter has been given nothing
CommenterIdle ==
    /\ line = Empty
    /\ display = Empty
    /\ comment = NoComment
    /\ out = Empty
    /\ passes = 0

\* the file processor has been given nothing
ProcessorIdle ==
    /\ job = NoJob
    /\ disk = << >>
    /\ faults = << >>
    /\ original = << >>
    /\ fileIdx = 0
    /\ contentStr = << >>
    /\ contentModified = FALSE
    /\ usesIdx = 0
    /\ actionsToUpdate = << >>
    /\ latestSHA = Empty
    /\ asked = {}
    /\ answers = {}
    /\ ppc = "idle"

Init ==
    /\ releaseCache = << >>
    /\ readers = {}
    /\ writer = 0
    /\ world \in { [r \in Repos |-> IF r = NameAC THEN w ELSE RepoStateBD] :
                   w \in RepoStatesAC }
    /\ published = 0
    /\ pc = [p \in Procs |-> "idle"]
    /\ fn = [p \in Procs |-> "none"]
    /\ actionName = [p \in Procs |-> Empty]
    /\ currentVersion = [p \in Procs |-> Empty]
    /\ baseActionName = [p \in Procs |-> Empty]
    /\ info = [p \in Procs |-> ZeroInfo]
    /\ found = [p \in Procs |-> FALSE]
    /\ info2 = [p \in Procs |-> ZeroInfo]
    /\ found2 = [p \in Procs |-> FALSE]
    /\ release = [p \in Procs |-> NoRelease]
    /\ clientBase = [p \in Procs |-> Empty]
    /\ fullVersion = [p \in Procs |-> Empty]
    /\ majorVersion = [p \in Procs |-> Empty]
    /\ sha = [p \in Procs |-> Empty]
    /\ clientRet = [p \in Procs |-> NoRet]
    /\ result = [p \in Procs |-> NoRet]
    /\ calls = [p \in Procs |-> 0]
    /\ ncalls = 0
    /\ quiet = [p \in Procs |-> FALSE]
    /\ prev = [p \in Procs |-> NoPrev]
    /\ prevRes = [p \in Procs |-> NoRet]
    /\ stored = [p \in Procs |-> FALSE]
    /\ ClassifierIdle
    /\ CommenterIdle
    /\ ProcessorIdle


\* ------------------------------------------------------------ cacheMutex
\* sync.RWMutex: RLock waits while a writer holds the lock, Lock waits
\* while anyone holds it
CanRLock == writer = 0

CanLock == writer = 0 /\ readers = {}

RLockAcquire(rs, p) == rs \cup {p}

\* RUnlockRelease that leaves the read lock held
RUnlockReleaseKeep(rs, p) == rs

RUnlockRelease(rs, p) == rs \ {p}

\* ----------------------------------------------------------- the cache
\* MakeReleaseInfo recording the full version as the major version
MakeReleaseInfoFullAsMajor(major, full, s) ==
    [MajorVersion |-> full, FullVersion |-> full, SHA |-> s]

\* releaseCache[key] = ReleaseInfo{MajorVersion, FullVersion, SHA}
MakeReleaseInfo(major, full, s) ==
    [MajorVersion |-> major, FullVersion |-> full, SHA |-> s]

\* StoreEntry that merges into an existing entry: only the version fields
\* are refreshed, the SHA stored first is kept
StoreEntryMerge(cache, key, entry) ==
    [k \in DOMAIN cache \cup {key} |->
        IF k # key THEN cache[k]
        ELSE IF key \in DOMAIN cache
        THEN [entry EXCEPT !.SHA = cache[key].SHA]
        ELSE entry]

StoreEntry(cache, key, entry) ==
    [k \in DOMAIN cache \cup {key} |-> IF k = key THEN entry ELSE cache[k]]

\* info, found := releaseCache[key]
CacheFound(cache, key) == key \in DOMAIN cache

CacheInfo(cache, key) == IF key \in DOMAIN cache THEN cache[key] ELSE ZeroInfo

\* ------------------------------------------------------ resolver, pieces
\* HitResult with the comparison of the two major versions left out
HitResultAnyMajor(cv, i) ==
    IF isMajorVersionConstraint(cv)
    THEN Ret(cv, Empty, "nil")
    ELSE Ret(i.FullVersion, i.SHA, "nil")

\* the cache-hit branch of GetLatestReleaseWithSHA: the value returned for
\* currentVersion cv and the cached entry i
HitResult(cv, i) ==
    IF isMajorVersionConstraint(cv)
       /\ extractMajorVersion(cv) = i.MajorVersion
    THEN Ret(cv, Empty, "nil")
    ELSE Ret(i.FullVersion, i.SHA, "nil")

\* GetLatestRelease returns (version, err) only: the sha field stays empty
VersionOnly(r) == Ret(r.version, Empty, r.err)

\* owner + "/" + repo of getLatestReleaseWithClient
ClientBaseName(parts) == parts[1] \o << "/" >> \o parts[2]

\* ReleaseLookupRet treating a 404 like any other error
ReleaseLookupRetNo404(rel) ==
    CASE rel = "notfound" -> Ret(Empty, Empty, "transport")
      [] rel = "notag" -> Ret(Empty, Empty, "nil")
      [] rel = "error" -> Ret(Empty, Empty, "transport")

\* ReleaseLookupRet swallowing the error of the release lookup
ReleaseLookupRetSwallow(rel) ==
    CASE rel = "notfound" -> Ret(Empty, Empty, "nil")
      [] rel = "notag" -> Ret(Empty, Empty, "nil")
      [] rel = "error" -> Ret(Empty, Empty, "nil")

\* what getLatestReleaseWithClient returns straight after the release
\* lookup when it does not go on to the tag reference
ReleaseLookupRet(rel) ==
    CASE rel = "notfound" -> Ret(Empty, Empty, "nil")
      [] rel = "notag" -> Ret(Empty, Empty, "nil")
      [] rel = "error" -> Ret(Empty, Empty, "transport")

\* Git.GetRef failed
RefErrorRet(full) == Ret(full, Empty, "ref")

\* the commit taken from the tag reference, else the release's
\* target commitish
RefSHA(refsha, commitish) == IF refsha # Empty THEN refsha ELSE commitish

\* DirectResult handing back the major line instead of the release
DirectResultMajor(r) == Ret(extractMajorVersion(r.version), Empty, "nil")

\* the return of GetLatestReleaseWithSHA when the client call gave a SHA
DirectResult(r) == Ret(r.version, r.sha, "nil")

\* the return of GetLatestReleaseWithSHA when the client call gave no SHA
\* and the cache was read again
RereadResult(version, f, i) ==
    IF f /\ i.SHA # Empty THEN Ret(version, i.SHA, "nil")
    ELSE Ret(version, Empty, "nil")


\* ------------------------------------------------------------- actions
\* a caller enters GetLatestRelease or GetLatestReleaseWithSHA
Call(p) ==
    /\ pc[p] = "idle"
    /\ ncalls < MaxCalls
    /\ \E c \in CallArgs :
         /\ fn' = [fn EXCEPT ![p] = c[1]]
         /\ actionName' = [actionName EXCEPT ![p] = c[2]]
         /\ currentVersion' = [currentVersion EXCEPT ![p] = c[3]]
         /\ baseActionName' = [baseActionName EXCEPT ![p] =
                                   getBaseActionName(c[2])]
         /\ prevRes' = [prevRes EXCEPT ![p] =
                 IF /\ prev[p].fn = c[1]
                    /\ prev[p].actionName = c[2]
                    /\ prev[p].currentVersion = c[3]
                 THEN prev[p].res
                 ELSE NoRet]
    /\ prev' = [prev EXCEPT ![p] = NoPrev]
    /\ quiet' = [quiet EXCEPT ![p] = TRUE]
    /\ ncalls' = ncalls + 1
    /\ pc' = [pc EXCEPT ![p] = "rlock"]
    /\ UNCHANGED << releaseCache, locks, world, published, tools, locals,
                    result,
                    calls, stored >>

\* AfterClientPc repeating the tag-ref lookup when the client gave no SHA
AfterClientPcRefAgain(f, r) ==
    IF f = "GetLatestRelease" THEN "done"
    ELSE IF r.err # "nil" THEN "done"
    ELSE IF r.sha # Empty THEN "done"
    ELSE "get_ref"

\* the entry point after getLatestReleaseWithClient returned r: where it
\* goes on and what it returns when it returns at once
AfterClientPc(f, r) ==
    IF f = "GetLatestRelease" THEN "done"
    ELSE IF r.err # "nil" THEN "done"
    ELSE IF r.sha # Empty THEN "done"
    ELSE "rlock2"

AfterClientResult(f, r) ==
    IF f = "GetLatestRelease" THEN VersionOnly(r)
    ELSE IF r.err # "nil" THEN Ret(Empty, Empty, r.err)
    ELSE IF r.sha # Empty THEN DirectResult(r)
    ELSE NoRet

\* getLatestReleaseWithClient returns r to the entry point
ClientReturns(p, r) ==
    /\ clientRet' = [clientRet EXCEPT ![p] = r]
    /\ result' = [result EXCEPT ![p] = AfterClientResult(fn[p], r)]
    /\ pc' = [pc EXCEPT ![p] = AfterClientPc(fn[p], r)]

\* cacheMutex.RLock() before the first cache read
RLock(p) ==
    /\ pc[p] = "rlock"
    /\ CanRLock
    /\ readers' = RLockAcquire(readers, p)
    /\ pc' = [pc EXCEPT ![p] = "read"]
    /\ UNCHANGED << releaseCache, writer, world, published, tools, args, locals,
                    result, calls, ncalls, hist >>

\* info, found := releaseCache[baseActionName]
Read(p) ==
    /\ pc[p] = "read"
    /\ info' = [info EXCEPT ![p] = CacheInfo(releaseCache, baseActionName[p])]
    /\ found' = [found EXCEPT ![p] = CacheFound(releaseCache, baseActionName[p])]
    /\ pc' = [pc EXCEPT ![p] = "runlock"]
    /\ UNCHANGED << releaseCache, locks, world, published, tools, args, info2,
                    found2, release, clientBase, fullVersion, majorVersion,
                    sha, clientRet, result, calls, ncalls, hist >>

\* cache hit: cacheMutex.RUnlock(), then the major-constraint
\* short-circuit or the cached release is returned
RUnlockHit(p) ==
    /\ pc[p] = "runlock"
    /\ found[p]
    /\ readers' = RUnlockRelease(readers, p)
    /\ result' = [result EXCEPT ![p] =
            IF fn[p] = "GetLatestRelease"
            THEN VersionOnly(HitResult(currentVersion[p], info[p]))
            ELSE HitResult(currentVersion[p], info[p])]
    /\ pc' = [pc EXCEPT ![p] = "done"]
    /\ UNCHANGED << releaseCache, writer, world, published, tools, args, locals,
                    calls, ncalls, hist >>

\* cache miss: cacheMutex.RUnlock(), then getLatestReleaseWithClient is
\* entered and parses the action name
RUnlockMiss(p) ==
    /\ pc[p] = "runlock"
    /\ ~ found[p]
    /\ readers' = RUnlockRelease(readers, p)
    /\ LET parts == SplitN(actionName[p], "/", 3)
       IN  IF Len(parts) < 2
           THEN /\ ClientReturns(p, Ret(Empty, Empty, "nil"))
                /\ UNCHANGED clientBase
           ELSE /\ clientBase' = [clientBase EXCEPT ![p] = ClientBaseName(parts)]
                /\ pc' = [pc EXCEPT ![p] = "get_release"]
                /\ UNCHANGED << clientRet, result >>
    /\ UNCHANGED << releaseCache, writer, world, published, tools, args, info, found,
                    info2, found2, release, fullVersion, majorVersion, sha,
                    calls, ncalls, hist >>

\* client.Repositories.GetLatestRelease and the checks that follow it
GetRelease(p) ==
    /\ pc[p] = "get_release"
    /\ calls' = [calls EXCEPT ![p] = @ + 1]
    /\ release' = [release EXCEPT ![p] = world[clientBase[p]]]
    /\ LET w == world[clientBase[p]]
       IN  IF w.rel = "ok"
           THEN /\ fullVersion' = [fullVersion EXCEPT ![p] = w.tag]
                /\ majorVersion' = [majorVersion EXCEPT ![p] =
                                        extractMajorVersion(w.tag)]
                /\ pc' = [pc EXCEPT ![p] = "get_ref"]
                /\ UNCHANGED << clientRet, result >>
           ELSE /\ ClientReturns(p, ReleaseLookupRet(w.rel))
                /\ UNCHANGED << fullVersion, majorVersion >>
    /\ UNCHANGED << releaseCache, locks, world, published, tools, args, info, found,
                    info2, found2, clientBase, sha, ncalls, hist >>

\* client.Git.GetRef for refs/tags/<fullVersion>
GetRef(p) ==
    /\ pc[p] = "get_ref"
    /\ calls' = [calls EXCEPT ![p] = @ + 1]
    /\ LET w == world[clientBase[p]]
       IN  IF w.ref = "ok"
           THEN /\ sha' = [sha EXCEPT ![p] =
                               RefSHA(w.refsha, release[p].commitish)]
                /\ pc' = [pc EXCEPT ![p] = "lock"]
                /\ UNCHANGED << clientRet, result >>
           ELSE /\ ClientReturns(p, RefErrorRet(fullVersion[p]))
                /\ UNCHANGED sha
    /\ UNCHANGED << releaseCache, locks, world, published, tools, args, info, found,
                    info2, found2, release, clientBase, fullVersion,
                    majorVersion, ncalls, hist >>

\* cacheMutex.Lock()
Lock(p) ==
    /\ pc[p] = "lock"
    /\ CanLock
    /\ writer' = p
    /\ pc' = [pc EXCEPT ![p] = "store"]
    /\ UNCHANGED << releaseCache, readers, world, published, tools, args, locals,
                    result, calls, ncalls, hist >>

\* releaseCache[baseActionName] = ReleaseInfo{...}
Store(p) ==
    /\ pc[p] = "store"
    /\ releaseCache' = StoreEntry(releaseCache, clientBase[p],
            MakeReleaseInfo(majorVersion[p], fullVersion[p], sha[p]))
    /\ quiet' = [q \in Procs |-> IF q = p THEN quiet[q] ELSE FALSE]
    /\ prev' = [q \in Procs |-> IF q = p THEN prev[q] ELSE NoPrev]
    /\ prevRes' = [q \in Procs |-> IF q = p THEN prevRes[q] ELSE NoRet]
    /\ stored' = [stored EXCEPT ![p] = TRUE]
    /\ pc' = [pc EXCEPT ![p] = "unlock"]
    /\ UNCHANGED << locks, world, published, tools, args, locals, result, calls,
                    ncalls >>

\* cacheMutex.Unlock() and the return of getLatestReleaseWithClient
Unlock(p) ==
    /\ pc[p] = "unlock"
    /\ writer' = 0
    /\ ClientReturns(p, Ret(fullVersion[p], sha[p], "nil"))
    /\ UNCHANGED << releaseCache, readers, world, published, tools, args, info,
                    found, info2, found2, release, clientBase, fullVersion,
                    majorVersion, sha, calls, ncalls, hist >>

\* cacheMutex.RLock() before the cache is read again
RLock2(p) ==
    /\ pc[p] = "rlock2"
    /\ CanRLock
    /\ readers' = RLockAcquire(readers, p)
    /\ pc' = [pc EXCEPT ![p] = "read2"]
    /\ UNCHANGED << releaseCache, writer, world, published, tools, args, locals,
                    result, calls, ncalls, hist >>

\* info, found := releaseCache[baseActionName], after the API call
Read2(p) ==
    /\ pc[p] = "read2"
    /\ info2' = [info2 EXCEPT ![p] = CacheInfo(releaseCache, baseActionName[p])]
    /\ found2' = [found2 EXCEPT ![p] = CacheFound(releaseCache, baseActionName[p])]
    /\ pc' = [pc EXCEPT ![p] = "runlock2"]
    /\ UNCHANGED << releaseCache, locks, world, published, tools, args, info, found,
                    release, clientBase, fullVersion, majorVersion, sha,
                    clientRet, result, calls, ncalls, hist >>

\* cacheMutex.RUnlock() and the last two returns of GetLatestReleaseWithSHA
RUnlock2(p) ==
    /\ pc[p] = "runlock2"
    /\ readers' = RUnlockRelease(readers, p)
    /\ result' = [result EXCEPT ![p] =
            RereadResult(clientRet[p].version, found2[p], info2[p])]
    /\ pc' = [pc EXCEPT ![p] = "done"]
    /\ UNCHANGED << releaseCache, writer, world, published, tools, args, locals,
                    calls, ncalls, hist >>

\* the entry point has returned; the caller is free to call again
Return(p) ==
    /\ pc[p] = "done"
    /\ pc' = [pc EXCEPT ![p] = "idle"]
    /\ info' = [info EXCEPT ![p] = ZeroInfo]
    /\ found' = [found EXCEPT ![p] = FALSE]
    /\ info2' = [info2 EXCEPT ![p] = ZeroInfo]
    /\ found2' = [found2 EXCEPT ![p] = FALSE]
    /\ release' = [release EXCEPT ![p] = NoRelease]
    /\ clientBase' = [clientBase EXCEPT ![p] = Empty]
    /\ fullVersion' = [fullVersion EXCEPT ![p] = Empty]
    /\ majorVersion' = [majorVersion EXCEPT ![p] = Empty]
    /\ sha' = [sha EXCEPT ![p] = Empty]
    /\ clientRet' = [clientRet EXCEPT ![p] = NoRet]
    /\ fn' = [fn EXCEPT ![p] = "none"]
    /\ actionName' = [actionName EXCEPT ![p] = Empty]
    /\ currentVersion' = [currentVersion EXCEPT ![p] = Empty]
    /\ baseActionName' = [baseActionName EXCEPT ![p] = Empty]
    /\ result' = [result EXCEPT ![p] = NoRet]
    /\ calls' = [calls EXCEPT ![p] = 0]
    /\ prev' = [prev EXCEPT ![p] =
            IF quiet[p]
            THEN [fn |-> fn[p], actionName |-> actionName[p],
                  currentVersion |-> currentVersion[p], res |-> result[p]]
            ELSE NoPrev]
    /\ quiet' = [quiet EXCEPT ![p] = FALSE]
    /\ prevRes' = [prevRes EXCEPT ![p] = NoRet]
    /\ stored' = [stored EXCEPT ![p] = FALSE]
    /\ UNCHANGED << releaseCache, locks, world, published, tools, ncalls >>

\* the hosting API's answers for a/c change: a new release v5.0.0 is
\* published
Publish ==
    /\ published < MaxPublish
    /\ world[NameAC] # RepoPublished
    /\ world' = [world EXCEPT ![NameAC] = RepoPublished]
    /\ published' = published + 1
    /\ quiet' = [q \in Procs |-> FALSE]
    /\ prev' = [q \in Procs |-> NoPrev]
    /\ prevRes' = [q \in Procs |-> NoRet]
    /\ UNCHANGED << releaseCache, locks, tools, pc, args, locals, result,
                    calls, ncalls, stored >>

Step(p) ==
    \/ Call(p)
    \/ RLock(p)
    \/ Read(p)
    \/ RUnlockHit(p)
    \/ RUnlockMiss(p)
    \/ GetRelease(p)
    \/ GetRef(p)
    \/ Lock(p)
    \/ Store(p)
    \/ Unlock(p)
    \/ RLock2(p)
    \/ Read2(p)
    \/ RUnlock2(p)
    \/ Return(p)

Next ==
    \/ \E p \in Procs : Step(p)
    \/ Publish

Spec == Init /\ [][Next]_vars

\* ------------------------------------------------- the resolver at rest
\* nobody calls the resolver and the cache is empty, as when the process
\* starts
CallersIdle ==
    /\ releaseCache = << >>
    /\ readers = {}
    /\ writer = 0
    /\ published = 0
    /\ pc = [p \in Procs |-> "idle"]
    /\ fn = [p \in Procs |-> "none"]
    /\ actionName = [p \in Procs |-> Empty]
    /\ currentVersion = [p \in Procs |-> Empty]
    /\ baseActionName = [p \in Procs |-> Empty]
    /\ info = [p \in Procs |-> ZeroInfo]
    /\ found = [p \in Procs |-> FALSE]
    /\ info2 = [p \in Procs |-> ZeroInfo]
    /\ found2 = [p \in Procs |-> FALSE]
    /\ release = [p \in Procs |-> NoRelease]
    /\ clientBase = [p \in Procs |-> Empty]
    /\ fullVersion = [p \in Procs |-> Empty]
    /\ majorVersion = [p \in Procs |-> Empty]
    /\ sha = [p \in Procs |-> Empty]
    /\ clientRet = [p \in Procs |-> NoRet]
    /\ result = [p \in Procs |-> NoRet]
    /\ calls = [p \in Procs |-> 0]
    /\ ncalls = 0
    /\ quiet = [p \in Procs |-> FALSE]
    /\ prev = [p \in Procs |-> NoPrev]
    /\ prevRes = [p \in Procs |-> NoRet]
    /\ stored = [p \in Procs |-> FALSE]

\* the state the pure helpers are applied in
ResolverAtRest ==
    /\ CallersIdle
    /\ world = [r \in Repos |-> IF r = NameAC THEN RepoPublished
                                ELSE RepoStateBD]

resolver == << releaseCache, locks, world, published, pc, args, locals,
               result, calls, ncalls, hist >>

\* ------------------------------------------------------- the classifier
\* a version token is given to the classifier
InitClassify ==
    /\ ResolverAtRest
    /\ CommenterIdle
    /\ ProcessorIdle
    /\ token \in Tokens
    /\ class = NoClass
    /\ extracted = Empty
    /\ extracts = 0

\* the predicates of both packages are applied to the token
Classify ==
    /\ ~ class.done
    /\ class' = [done |-> TRUE,
                 CommitSHA |-> isSHA(token),
                 MajorConstraint |-> isMajorVersionConstraint(token),
                 ProcessorMajorConstraint |->
                     processorIsMajorVersionConstraint(token),
                 SemanticVersion |-> IsVersionNumber(token)]
    /\ UNCHANGED << resolver, commenter, processor, token, extracted,
                    extracts >>

\* extractMajorVersion is applied to the token, then to its own result
ExtractMajor ==
    /\ extracts < 2
    /\ extracted' = extractMajorVersion(IF extracts = 0 THEN token
                                        ELSE extracted)
    /\ extracts' = extracts + 1
    /\ UNCHANGED << resolver, commenter, processor, token, class >>

NextClassify ==
    \/ Classify
    \/ ExtractMajor

SpecClassify == InitClassify /\ [][NextClassify]_vars

\* -------------------------------------------------- the comment rewriter
\* a line and a display version are given to updateVersionComment
InitComment ==
    /\ ResolverAtRest
    /\ ClassifierIdle
    /\ ProcessorIdle
    /\ display \in DisplayVersions
    /\ \/ \E pad \in Blanks \cup Separators :
            /\ line = PlainLine(pad)
            /\ comment = NoComment
       \/ \E pad \in Blanks, lead \in Blanks, trail \in Blanks,
             ws \in WordSeqs, sep \in Separators :
            /\ comment = [words |-> ws,
                           sep |-> IF Len(ws) > 1 THEN sep ELSE Empty]
            /\ line = CommentLine(pad, lead, comment, trail)
    /\ out = Empty
    /\ passes = 0

\* updateVersionComment is applied to the line, then to its own result
UpdateComment ==
    /\ passes < 2
    /\ out' = updateVersionComment(IF passes = 0 THEN line ELSE out, display)
    /\ passes' = passes + 1
    /\ UNCHANGED << resolver, classifier, processor, line, display,
                    comment >>

NextComment == UpdateComment

SpecComment == InitComment /\ [][NextComment]_vars

\* --------------------------------------------------- the file processor
\* ParseYAMLForUses, one step line: the value of the uses key, which is the
\* text after "uses: " up to a '#' that follows a blank, blanks trimmed
UsesValue(ln) ==
    LET rest == SubSeq(ln, IndexOf(ln, UsesKey) + Len(UsesKey), Len(ln))
        hashes == { i \in 2..Len(rest) :
                      rest[i] = "#" /\ IsSpace(rest[i - 1]) }
        cut == IF hashes = {} THEN Len(rest)
               ELSE (CHOOSE i \in hashes : \A j \in hashes : i <= j) - 1
    IN  TrimSpace(SubSeq(rest, 1, cut))

\* ParseYAMLForUses: the uses values of the steps, in the order of the file
RECURSIVE ParseYAMLForUses(_)
ParseYAMLForUses(lines) ==
    IF lines = << >> THEN << >>
    ELSE (IF ContainsSub(Head(lines), UsesKey)
          THEN << UsesValue(Head(lines)) >>
          ELSE << >>)
         \o ParseYAMLForUses(Tail(lines))

\* the body of the loop without the update of the comment
PinLineNoComment(ln, old, by, shown) ==
    IF ContainsSub(ln, old) THEN ReplaceFirst(ln, old, by) ELSE ln

\* the body of the loop over the lines of contentStr: a line that contains
\* old has its first old replaced and its comment updated to shown
PinLine(ln, old, by, shown) ==
    IF ContainsSub(ln, old)
    THEN updateVersionComment(ReplaceFirst(ln, old, by), shown)
    ELSE ln

\* strings.Split(contentStr, "\n"), the loop, strings.Join(newLines, "\n")
PinLines(lines, old, by, shown) ==
    [i \in 1..Len(lines) |-> PinLine(lines[i], old, by, shown)]

\* strings.ReplaceAll(contentStr, old, by); old holds no line break
ReplaceAllLines(lines, old, by) ==
    [i \in 1..Len(lines) |-> ReplaceAll(lines[i], old, by)]

\* UpdateAction, the update of contentStr for the reference name@cv when
\* the resolver returned r
UpdateLines(lines, name, cv, r) ==
    IF isSHA(cv)
    THEN PinLines(lines, RefTo(name, cv), RefTo(name, r.sha), r.version)
    ELSE IF processorIsMajorVersionConstraint(cv)
    THEN ReplaceAllLines(lines, RefTo(name, cv),
                         RefTo(name, extractMajorVersion(r.version)))
    ELSE ReplaceAllLines(lines, RefTo(name, cv), RefTo(name, r.version))

\* UpdateAction's comparison of the versions: an update is available
UpdateAvailable(cv, r) ==
    \/ cv # r.version
    \/ (isSHA(cv) /\ r.sha # Empty /\ cv # r.sha)

\* yaml.Unmarshal fails on the content
YAMLError(lines) == \E i \in 1..Len(lines) : lines[i] = BrokenLine

\* usesValues, parsed from the content read from the file being processed
usesValues == ParseYAMLForUses(disk[fileIdx])

\* the file processor is the resolver's first caller
Worker == CHOOSE p \in Procs : \A q \in Procs : p <= q

\* the workflow files are on disk, the process has just started
InitProcess ==
    /\ CallersIdle
    /\ world \in { [r \in Repos |-> IF r = NameAC THEN w ELSE RepoStateBD] :
                   w \in RepoStatesAC }
    /\ ClassifierIdle
    /\ CommenterIdle
    /\ \E s \in Sweeps :
         /\ disk = s.files
         /\ faults = s.faults
    /\ original = disk
    /\ job = NoJob
    /\ fileIdx = 0
    /\ contentStr = << >>
    /\ contentModified = FALSE
    /\ usesIdx = 0
    /\ actionsToUpdate = << >>
    /\ latestSHA = Empty
    /\ asked = {}
    /\ answers = {}
    /\ ppc = "idle"

\* github.GetLatestReleaseWithSHA(token, name, cv) is entered
Resolve(name, cv) ==
    /\ pc[Worker] = "idle"
    /\ fn' = [fn EXCEPT ![Worker] = "GetLatestReleaseWithSHA"]
    /\ actionName' = [actionName EXCEPT ![Worker] = name]
    /\ currentVersion' = [currentVersion EXCEPT ![Worker] = cv]
    /\ baseActionName' = [baseActionName EXCEPT ![Worker] =
                              getBaseActionName(name)]
    /\ prevRes' = [prevRes EXCEPT ![Worker] =
            IF /\ prev[Worker].fn = "GetLatestReleaseWithSHA"
               /\ prev[Worker].actionName = name
               /\ prev[Worker].currentVersion = cv
            THEN prev[Worker].res
            ELSE NoRet]
    /\ prev' = [prev EXCEPT ![Worker] = NoPrev]
    /\ quiet' = [quiet EXCEPT ![Worker] = TRUE]
    /\ ncalls' = ncalls + 1
    /\ pc' = [pc EXCEPT ![Worker] = "rlock"]
    /\ asked' = asked \cup { << fileIdx, usesIdx, name, cv >> }
    /\ UNCHANGED << releaseCache, locks, world, published, locals, result,
                    calls, stored >>

\* the resolver returned r for the uses value at hand
Resolved(r) == answers' = answers \cup { << fileIdx, usesIdx, r >> }

\* PinAllActions is called
BeginPinAllActions ==
    /\ ppc = "idle"
    /\ \E w \in BOOLEAN : job' = Job("PinAllActions", Empty, Empty, w)
    /\ fileIdx' = 1
    /\ ppc' = "read"
    /\ UNCHANGED << resolver, classifier, commenter, disk, faults, original,
                    contentStr, contentModified, usesIdx, actionsToUpdate,
                    latestSHA, asked, answers >>

\* ReadFile that ends the sweep at a file that cannot be read or parsed
ReadFileAbort ==
    /\ ppc = "read"
    /\ IF fileIdx > Len(disk)
       THEN /\ ppc' = "done"
            /\ UNCHANGED << fileIdx, contentStr, contentModified, usesIdx,
                            actionsToUpdate >>
       ELSE IF faults[fileIdx] = "read" \/ YAMLError(disk[fileIdx])
       THEN /\ ppc' = "done"
            /\ fileIdx' = fileIdx + 1
            /\ UNCHANGED << contentStr, contentModified, usesIdx,
                            actionsToUpdate >>
       ELSE /\ contentStr' = disk[fileIdx]
            /\ contentModified' = FALSE
            /\ usesIdx' = 1
            /\ actionsToUpdate' = << >>
            /\ ppc' = "uses"
            /\ UNCHANGED fileIdx
    /\ UNCHANGED << resolver, classifier, commenter, job, disk, faults,
                    original, latestSHA, asked, answers >>

\* the head of the loop over the files: file.ReadFile and
\* file.ParseYAMLForUses; when either fails PinAllActions and PinAction go
\* on to the next file and UpdateAction returns
ReadFile ==
    /\ ppc = "read"
    /\ IF fileIdx > Len(disk)
       THEN /\ ppc' = "done"
            /\ UNCHANGED << fileIdx, contentStr, contentModified, usesIdx,
                            actionsToUpdate >>
       ELSE IF faults[fileIdx] = "read" \/ YAMLError(disk[fileIdx])
       THEN /\ ppc' = IF job.op = "UpdateAction" THEN "done" ELSE "read"
            /\ fileIdx' = fileIdx + 1
            /\ UNCHANGED << contentStr, contentModified, usesIdx,
                            actionsToUpdate >>
       ELSE /\ contentStr' = disk[fileIdx]
            /\ contentModified' = FALSE
            /\ usesIdx' = 1
            /\ actionsToUpdate' = << >>
            /\ ppc' = "uses"
            /\ UNCHANGED fileIdx
    /\ UNCHANGED << resolver, classifier, commenter, job, disk, faults,
                    original, latestSHA, asked, answers >>

\* PinAllActions, one uses value up to the resolver call
PinAllActionsUses ==
    /\ ppc = "uses"
    /\ job.op = "PinAllActions"
    /\ usesIdx <= Len(usesValues)
    /\ LET parts == Split(usesValues[usesIdx], "@")
       IN  IF Len(parts) # 2 \/ parts[2] = Main
           THEN /\ usesIdx' = usesIdx + 1
                /\ UNCHANGED << resolver, asked, ppc >>
           ELSE /\ Resolve(TrimSpace(parts[1]), parts[2])
                /\ ppc' = "await"
                /\ UNCHANGED usesIdx
    /\ UNCHANGED << classifier, commenter, job, disk, faults, original,
                    fileIdx, contentStr, contentModified, actionsToUpdate,
                    latestSHA, answers >>

\* PinAllActions, one uses value after the resolver returned
PinAllActionsResolved ==
    /\ ppc = "await"
    /\ job.op = "PinAllActions"
    /\ pc[Worker] = "done"
    /\ LET parts == Split(usesValues[usesIdx], "@")
           name == TrimSpace(parts[1])
           cv == parts[2]
           r == result[Worker]
       IN  /\ Resolved(r)
           /\ IF \/ r.err # "nil"
                 \/ r.version = Empty
                 \/ r.sha = Empty
                 \/ (isSHA(cv) /\ cv = r.sha)
              THEN UNCHANGED << contentStr, contentModified >>
              ELSE /\ contentStr' = PinLines(contentStr, RefTo(name, cv),
                                             RefTo(name, r.sha), r.version)
                   /\ contentModified' = TRUE
    /\ usesIdx' = usesIdx + 1
    /\ ppc' = "uses"
    /\ UNCHANGED << resolver, classifier, commenter, job, disk, faults,
                    original, fileIdx, actionsToUpdate, latestSHA, asked >>

\* PinAction up to its resolver call, made once before the files
BeginPinAction ==
    /\ ppc = "idle"
    /\ \E v \in PinVersions, w \in BOOLEAN :
         /\ job' = Job("PinAction", NameAC, v, w)
         /\ Resolve(NameAC, v)
    /\ ppc' = "await"
    /\ UNCHANGED << classifier, commenter, disk, faults, original, fileIdx,
                    contentStr, contentModified, usesIdx, actionsToUpdate,
                    latestSHA, answers >>

\* PinAction after the resolver returned: it returns, or goes on to the
\* loop over the files
PinActionResolved ==
    /\ ppc = "await"
    /\ job.op = "PinAction"
    /\ pc[Worker] = "done"
    /\ LET r == result[Worker]
       IN  /\ Resolved(r)
           /\ IF r.err # "nil" \/ r.sha = Empty
              THEN /\ ppc' = "done"
                   /\ UNCHANGED << latestSHA, fileIdx >>
              ELSE /\ latestSHA' = r.sha
                   /\ fileIdx' = 1
                   /\ ppc' = "read"
    /\ UNCHANGED << resolver, classifier, commenter, job, disk, faults,
                    original, contentStr, contentModified, usesIdx,
                    actionsToUpdate, asked >>

\* PinAction, one uses value of the loop that fills actionsToUpdate
PinActionUses ==
    /\ ppc = "uses"
    /\ job.op = "PinAction"
    /\ usesIdx <= Len(usesValues)
    /\ LET uses == usesValues[usesIdx]
           parts == Split(uses, "@")
       IN  IF /\ HasPrefix(uses, job.name \o At)
              /\ Len(parts) = 2
              /\ parts[2] # Main
              /\ ~ isSHA(parts[2])
           THEN actionsToUpdate' =
                    [n \in DOMAIN actionsToUpdate \cup { job.name } |->
                        IF n = job.name THEN parts[2]
                        ELSE actionsToUpdate[n]]
           ELSE UNCHANGED actionsToUpdate
    /\ usesIdx' = usesIdx + 1
    /\ UNCHANGED << resolver, classifier, commenter, job, disk, faults,
                    original, fileIdx, contentStr, contentModified,
                    latestSHA, asked, answers, ppc >>

\* the loop over the uses values is over; PinAction goes on to the next
\* file when actionsToUpdate is empty
UsesDone ==
    /\ ppc = "uses"
    /\ usesIdx > Len(usesValues)
    /\ IF job.op = "PinAction" /\ DOMAIN actionsToUpdate = {}
       THEN /\ fileIdx' = fileIdx + 1
            /\ ppc' = "read"
       ELSE /\ ppc' = IF job.op = "PinAction" THEN "rewrite" ELSE "write"
            /\ UNCHANGED fileIdx
    /\ UNCHANGED << resolver, classifier, commenter, job, disk, faults,
                    original, contentStr, contentModified, usesIdx,
                    actionsToUpdate, latestSHA, asked, answers >>

\* PinAction, the loop over actionsToUpdate, whose one key is actionName
PinActionRewrite ==
    /\ ppc = "rewrite"
    /\ LET cv == actionsToUpdate[job.name]
       IN  contentStr' = PinLines(contentStr, RefTo(job.name, cv),
                                  RefTo(job.name, latestSHA), job.version)
    /\ contentModified' = TRUE
    /\ ppc' = "write"
    /\ UNCHANGED << resolver, classifier, commenter, job, disk, faults,
                    original, fileIdx, usesIdx, actionsToUpdate, latestSHA,
                    asked, answers >>

\* UpdateAction is called for the first of the files
BeginUpdateAction ==
    /\ ppc = "idle"
    /\ \E w \in BOOLEAN : job' = Job("UpdateAction", NameAC, Empty, w)
    /\ fileIdx' = 1
    /\ ppc' = "read"
    /\ UNCHANGED << resolver, classifier, commenter, disk, faults, original,
                    contentStr, contentModified, usesIdx, actionsToUpdate,
                    latestSHA, asked, answers >>

\* UpdateAction, one uses value up to the resolver call
UpdateActionUses ==
    /\ ppc = "uses"
    /\ job.op = "UpdateAction"
    /\ usesIdx <= Len(usesValues)
    /\ LET uses == usesValues[usesIdx]
           parts == Split(uses, "@")
       IN  IF /\ HasPrefix(uses, job.name \o At)
              /\ Len(parts) = 2
              /\ parts[2] # Main
           THEN /\ Resolve(job.name, parts[2])
                /\ ppc' = "await"
                /\ UNCHANGED usesIdx
           ELSE /\ usesIdx' = usesIdx + 1
                /\ UNCHANGED << resolver, asked, ppc >>
    /\ UNCHANGED << classifier, commenter, job, disk, faults, original,
                    fileIdx, contentStr, contentModified, actionsToUpdate,
                    latestSHA, answers >>

\* UpdateAction, one uses value after the resolver returned
UpdateActionResolved ==
    /\ ppc = "await"
    /\ job.op = "UpdateAction"
    /\ pc[Worker] = "done"
    /\ LET cv == Split(usesValues[usesIdx], "@")[2]
           r == result[Worker]
       IN  /\ Resolved(r)
           /\ IF /\ r.err = "nil"
                 /\ r.version # Empty
                 /\ UpdateAvailable(cv, r)
                 /\ job.write
              THEN /\ contentStr' = UpdateLines(contentStr, job.name, cv, r)
                   /\ contentModified' = TRUE
              ELSE UNCHANGED << contentStr, contentModified >>
    /\ usesIdx' = usesIdx + 1
    /\ ppc' = "uses"
    /\ UNCHANGED << resolver, classifier, commenter, job, disk, faults,
                    original, fileIdx, actionsToUpdate, latestSHA, asked >>

\* WriteFile that writes whenever the content was modified
WriteFileAlways ==
    /\ ppc = "write"
    /\ disk' = IF contentModified /\ faults[fileIdx] # "write"
               THEN [disk EXCEPT ![fileIdx] = contentStr]
               ELSE disk
    /\ fileIdx' = fileIdx + 1
    /\ ppc' = IF job.op = "UpdateAction" THEN "done" ELSE "read"
    /\ UNCHANGED << resolver, classifier, commenter, job, faults, original,
                    contentStr, contentModified, usesIdx, actionsToUpdate,
                    latestSHA, asked, answers >>

\* os.WriteFile when contentModified && write, which leaves the file as
\* it is when it cannot be opened; then the next file, or the return of
\* UpdateAction
WriteFile ==
    /\ ppc = "write"
    /\ disk' = IF contentModified /\ job.write /\ faults[fileIdx] # "write"
               THEN [disk EXCEPT ![fileIdx] = contentStr]
               ELSE disk
    /\ fileIdx' = fileIdx + 1
    /\ ppc' = IF job.op = "UpdateAction" THEN "done" ELSE "read"
    /\ UNCHANGED << resolver, classifier, commenter, job, faults, original,
                    contentStr, contentModified, usesIdx, actionsToUpdate,
                    latestSHA, asked, answers >>

\* the resolver, run by the file processor; it is left once the processor
\* has taken what it returned
ResolverStep ==
    \/ RLock(Worker)
    \/ Read(Worker)
    \/ RUnlockHit(Worker)
    \/ RUnlockMiss(Worker)
    \/ GetRelease(Worker)
    \/ GetRef(Worker)
    \/ Lock(Worker)
    \/ Store(Worker)
    \/ Unlock(Worker)
    \/ RLock2(Worker)
    \/ Read2(Worker)
    \/ RUnlock2(Worker)
    \/ (ppc # "await" /\ Return(Worker))

NextProcess ==
    \/ BeginPinAllActions
    \/ ReadFile
    \/ PinAllActionsUses
    \/ PinAllActionsResolved
    \/ BeginPinAction
    \/ PinActionResolved
    \/ PinActionUses
    \/ PinActionRewrite
    \/ BeginUpdateAction
    \/ UpdateActionUses
    \/ UpdateActionResolved
    \/ UsesDone
    \/ WriteFile
    \/ ResolverStep

SpecProcess == InitProcess /\ [][NextProcess]_vars


\* ======================================================== properties
WithSHA(p) == fn[p] = "GetLatestReleaseWithSHA"

\* the call of p was answered from the cache / went to the API
IsHit(p) == pc[p] = "done" /\ found[p]

IsMiss(p) == pc[p] = "done" /\ ~ found[p]

\* the token is a major constraint naming the cached major line
TracksCachedMajor(cv, i) ==
    /\ isMajorVersionConstraint(cv)
    /\ extractMajorVersion(cv) = i.MajorVersion

\* C1: on a cache hit the resolver returns (currentVersion, "") exactly
\* when currentVersion is a major constraint whose major version equals the
\* cached MajorVersion, and (cached.FullVersion, cached.SHA) for every other
\* token; GetLatestRelease returns the version part of the same answer.  The
\* entry used is the one the cache held under the read lock.
C1_CacheHit ==
    \A p \in Procs :
      /\ (pc[p] = "runlock" /\ found[p]) =>
            /\ baseActionName[p] \in DOMAIN releaseCache
            /\ info[p] = releaseCache[baseActionName[p]]
      /\ IsHit(p) =>
            /\ result[p].err = "nil"
            /\ result[p].version =
                 IF TracksCachedMajor(currentVersion[p], info[p])
                 THEN currentVersion[p] ELSE info[p].FullVersion
            /\ WithSHA(p) => result[p].sha =
                 IF TracksCachedMajor(currentVersion[p], info[p])
                 THEN Empty ELSE info[p].SHA
            /\ (currentVersion[p] = V4 /\ info[p].FullVersion = V440)
                 => result[p].version = V4
            /\ (currentVersion[p] = V4 /\ info[p].FullVersion = V500)
                 => result[p].version = V500
            /\ currentVersion[p] \in { V440, SHA1 }
                 => result[p].version = info[p].FullVersion

\* a caller holding the token v4 was answered from a cached v4.4.0
C1_Witness ==
    \E p \in Procs :
      /\ IsHit(p)
      /\ WithSHA(p)
      /\ currentVersion[p] = V4
      /\ info[p] = MakeReleaseInfo(V4, V440, SHA1)
      /\ result[p] = Ret(V4, Empty, "nil")

\* both lookups of the call succeeded and the release was stored
BothLookupsOK(p) ==
    /\ release[p].rel = "ok"
    /\ clientRet[p] = Ret(fullVersion[p], sha[p], "nil")
    /\ stored[p]

\* C2: on a cache miss where the release lookup and the tag-ref lookup both
\* succeed, GetLatestReleaseWithSHA returns the full version of the release
\* it looked up together with the commit that lookup resolved, whatever the
\* kind of currentVersion: the major-constraint short-circuit is not applied.
\* While the world did not change and nobody else stored, these are the tag
\* and the commit the hosting API holds.  (A lookup that resolves no commit
\* at all, an empty object SHA and no target commitish, has no commit to
\* return; the version is still the release's full version.)
C2_MissReturnsRelease ==
    \A p \in Procs :
      (IsMiss(p) /\ WithSHA(p) /\ BothLookupsOK(p)) =>
        /\ result[p].err = "nil"
        /\ result[p].version = release[p].tag
        /\ result[p].version = fullVersion[p]
        /\ sha[p] # Empty => result[p].sha = sha[p]
        /\ quiet[p] =>
             LET w == world[baseActionName[p]]
             IN  /\ result[p].version = w.tag
                 /\ w.refsha # Empty => result[p].sha = w.refsha
                 /\ (w.refsha = Empty /\ w.commitish # Empty)
                      => result[p].sha = w.commitish

\* a cold cache, the token v4 and the latest release v4.4.0 of the same
\* major line: the release and its commit are returned
C2_Witness ==
    \E p \in Procs :
      /\ IsMiss(p)
      /\ WithSHA(p)
      /\ BothLookupsOK(p)
      /\ currentVersion[p] = V4
      /\ result[p] = Ret(V440, SHA1, "nil")

\* C3: two consecutive calls with the same (actionName, currentVersion),
\* with no other caller writing the cache and the same external answers,
\* return identical results, from any cache state
C3_Idempotent ==
    \A p \in Procs :
      (pc[p] = "done" /\ prevRes[p] # NoRet) => result[p] = prevRes[p]


\* the action name has fewer than two '/'-separated segments
FewerThanTwoSegments(n) == ~ Contains(n, "/")

\* the release lookup of the call found no release
NoReleaseFound(p) == release[p].rel \in { "notfound", "notag" }

\* C4: when no release can be determined (404, a release without tag name,
\* or an action name with fewer than two segments) the resolver returns an
\* empty version and a nil error and does not touch the cache; for a name
\* with fewer than two segments it makes no external call
C4_NoRelease ==
    \A p \in Procs :
      (IsMiss(p) /\ (FewerThanTwoSegments(actionName[p]) \/ NoReleaseFound(p)))
      => /\ result[p].version = Empty
         /\ result[p].err = "nil"
         /\ ~ stored[p]
         /\ quiet[p] => baseActionName[p] \notin DOMAIN releaseCache
         /\ FewerThanTwoSegments(actionName[p]) => calls[p] = 0
         /\ NoReleaseFound(p) => calls[p] = 1

\* a 404 was answered with the empty result while the other caller sits on
\* a name that cannot be split
C4_Witness ==
    \E p, q \in Procs :
      /\ IsMiss(p)
      /\ release[p].rel = "notfound"
      /\ result[p] = Ret(Empty, Empty, "nil")
      /\ IsMiss(q)
      /\ actionName[q] = NameBad
      /\ calls[q] = 0
      /\ result[q] = Ret(Empty, Empty, "nil")

\* C5: when the release lookup fails with an error other than 404 the
\* resolver returns that error with empty version and SHA, the cache is
\* unchanged, and the failure is not cached: the same call made again is a
\* cache miss again
C5_TransportFailure ==
    \A p \in Procs :
      /\ (IsMiss(p) /\ release[p].rel = "error")
         => /\ result[p] = Ret(Empty, Empty, "transport")
            /\ ~ stored[p]
            /\ calls[p] = 1
            /\ quiet[p] => baseActionName[p] \notin DOMAIN releaseCache
      /\ (pc[p] \in { "runlock", "get_release", "done" }
          /\ prevRes[p].err = "transport")
         => ~ found[p]

\* the same call failed twice in a row, going to the API both times
C5_Witness ==
    \E p \in Procs :
      /\ IsMiss(p)
      /\ WithSHA(p)
      /\ prevRes[p] = Ret(Empty, Empty, "transport")
      /\ result[p] = Ret(Empty, Empty, "transport")
      /\ calls[p] = 1

\* C6: when the release lookup succeeds and the tag-ref lookup fails, the
\* resolver falls back to the release's target commitish, stores the
\* ReleaseInfo and returns (fullVersion, targetCommitish) without error
C6_RefFallback ==
    \A p \in Procs :
      LET w == world[baseActionName[p]]
      IN  (IsMiss(p) /\ WithSHA(p) /\ quiet[p]
           /\ ~ FewerThanTwoSegments(actionName[p])
           /\ w.rel = "ok" /\ w.ref = "error")
          => /\ result[p] = Ret(w.tag, w.commitish, "nil")
             /\ baseActionName[p] \in DOMAIN releaseCache
             /\ releaseCache[baseActionName[p]] =
                  MakeReleaseInfo(extractMajorVersion(w.tag), w.tag, w.commitish)


\* owner/repo of an action name, read off its characters: everything before
\* the second '/', the whole name when it has fewer than two
SlashAt(n) == { i \in 1..Len(n) : n[i] = "/" }

OwnerRepo(n) ==
    IF Cardinality(SlashAt(n)) < 2 THEN n
    ELSE LET second == CHOOSE i \in SlashAt(n) :
                          Cardinality({ j \in SlashAt(n) : j < i }) = 1
         IN  SubSeq(n, 1, second - 1)

C8_CacheConsistent ==
    /\ \A k \in DOMAIN releaseCache :
         LET e == releaseCache[k]
         IN  /\ e.MajorVersion = extractMajorVersion(e.FullVersion)
             /\ e.FullVersion # Empty
             /\ e.FullVersion = V440 => e.MajorVersion = V4
             /\ e.FullVersion = V500 => e.MajorVersion = << "v", "5" >>
             /\ e.FullVersion = Bare50 => e.MajorVersion = Bare5
             /\ Cardinality(SlashAt(k)) = 1
             /\ \E n \in Names : k = OwnerRepo(n)
    /\ \A p \in Procs :
         stored[p] =>
           /\ OwnerRepo(actionName[p]) \in DOMAIN releaseCache
           /\ pc[p] = "unlock" => releaseCache[OwnerRepo(actionName[p])] =
                [MajorVersion |-> extractMajorVersion(release[p].tag),
                 FullVersion |-> release[p].tag,
                 SHA |-> sha[p]]

\* both repositories are cached, one with a v-prefixed and one with a bare
\* version
C8_Witness ==
    /\ DOMAIN releaseCache = { NameAC, NameBD }
    /\ releaseCache[NameAC] =
         [MajorVersion |-> V4, FullVersion |-> V440, SHA |-> SHA1]
    /\ releaseCache[NameBD] =
         [MajorVersion |-> Bare5, FullVersion |-> Bare50, SHA |-> SHA3]

\* the complete ReleaseInfo the lookup of p has produced
Produced(p) ==
    [MajorVersion |-> extractMajorVersion(release[p].tag),
     FullVersion |-> release[p].tag,
     SHA |-> sha[p]]

\* C9: under any interleaving the set of cached identities only grows, a
\* store replaces the whole entry of its own identity and nothing else, and
\* an entry changes only to the complete ReleaseInfo one lookup produced,
\* written by the caller that holds the write lock
C9_LastWriterWins ==
    [][ /\ DOMAIN releaseCache \subseteq DOMAIN releaseCache'
        /\ \A k \in DOMAIN releaseCache' :
             (k \notin DOMAIN releaseCache \/ releaseCache'[k] # releaseCache[k])
             => \E p \in Procs :
                  /\ pc[p] = "store"
                  /\ pc'[p] = "unlock"
                  /\ writer = p
                  /\ k = OwnerRepo(actionName[p])
                  /\ releaseCache'[k] = Produced(p)
                  /\ \A j \in DOMAIN releaseCache :
                       j # k => releaseCache'[j] = releaseCache[j]
      ]_vars

\* the entry of a/c stored from release v4.4.0 by one caller has just been
\* replaced by the other caller's v5.0.0
C9_Witness ==
    \E p, q \in Procs :
      /\ p # q
      /\ stored[q]
      /\ actionName[q] = NameAC
      /\ fullVersion[q] = V440
      /\ sha[q] = SHA1
      /\ pc[p] = "unlock"
      /\ OwnerRepo(actionName[p]) = NameAC
      /\ releaseCache[NameAC] =
           [MajorVersion |-> << "v", "5" >>, FullVersion |-> V500, SHA |-> SHA2]

\* C10: no caller holds the cache lock, read or write, while one of its
\* external calls is in progress; every read of the cache happens under the
\* read lock, every write under the write lock, and the write lock is held
\* for the single assignment only
C10_LockDiscipline ==
    /\ writer # 0 => readers = {}
    /\ \A p \in Procs :
         /\ pc[p] \in { "get_release", "get_ref" } =>
              (p \notin readers /\ writer # p)
         /\ pc[p] \in { "read", "read2" } => (p \in readers /\ writer = 0)
         /\ pc[p] = "store" => (writer = p /\ readers = {})
         /\ writer = p => pc[p] \in { "store", "unlock" }
         /\ p \in readers => pc[p] \in { "read", "runlock", "read2", "runlock2" }

\* one caller is inside the tag-ref lookup while the other holds the write
\* lock for its store
C10_Witness ==
    \E p, q \in Procs :
      /\ pc[p] = "get_ref"
      /\ pc[q] = "store"
      /\ writer = q

\* getLatestReleaseWithClient of p returned a release without error
ClientSucceeded(p) == clientRet[p].err = "nil" /\ clientRet[p].version # Empty

\* the external calls of one invocation, as a state property
CallCount(p) ==
    /\ calls[p] \in 0..2
    /\ IsHit(p) => calls[p] = 0
    /\ IsMiss(p) => calls[p] <= 2
    /\ pc[p] \in { "idle", "rlock", "read", "runlock", "get_release" }
         => calls[p] = 0
    /\ pc[p] = "get_ref" => calls[p] = 1
    /\ calls[p] = 2 => release[p].rel = "ok"
    /\ (pc[p] = "done" /\ release[p].rel \in { "notfound", "notag", "error" })
         => calls[p] = 1
    /\ ClientSucceeded(p) => calls[p] = 2

\* the external calls of one invocation, as a step property: the client
\* takes its answer from the hosting API, whatever the cache holds
CallStep(p) ==
    /\ (pc[p] = "get_release" /\ pc'[p] # "get_release")
         => /\ calls'[p] = 1
            /\ release'[p] = world[clientBase[p]]
            /\ pc'[p] = "get_ref" <=> world[clientBase[p]].rel = "ok"
    /\ (pc[p] = "get_ref" /\ pc'[p] # "get_ref")
         => /\ calls'[p] = 2
            /\ pc'[p] = "lock" <=> world[clientBase[p]].ref = "ok"
    /\ calls'[p] > calls[p] => pc[p] \in { "get_release", "get_ref" }

HasDot(t) == \E i \in 1..Len(t) : t[i] = "."

\* the token is 40 characters long, each a hex digit
FortyHex(t) == Len(t) = 40 /\ \A i \in 1..40 : t[i] \in HexChars

\* C12: isMajorVersionConstraint is false for the empty token and for every
\* token of 40 hex characters, and otherwise true exactly when the token,
\* one leading 'v' aside, has no '.'; so for the function of the github
\* package and for the one of the processor package
C12_MajorConstraint ==
    class.done =>
      LET expected == token # Empty /\ ~ FortyHex(token) /\ ~ HasDot(token)
      IN  /\ class.MajorConstraint = expected
          /\ class.ProcessorMajorConstraint = expected

\* the length of the token up to, not including, its first '.', a leading
\* 'v' not counted as a place where a '.' could be
UpToFirstDot(t) ==
    IF HasDot(t)
    THEN (CHOOSE i \in 1..Len(t) :
            t[i] = "." /\ \A j \in 1..(i - 1) : t[j] # ".") - 1
    ELSE Len(t)

\* C13: extractMajorVersion returns "" for "", and otherwise the first
\* '.'-separated segment of the token taken after one leading 'v', with the
\* 'v' put back, which is the token cut off before its first '.'; applied to
\* its own result it returns that result again
C13_ExtractMajor ==
    /\ [](extracts >= 1 =>
           /\ token = Empty => extracted = Empty
           /\ extracted = SubSeq(token, 1, UpToFirstDot(token))
           /\ token = V440 => extracted = V4
           /\ token = Bare50 => extracted = Bare5
           /\ token = V4 => extracted = V4)
    /\ [][extracts = 1 /\ extracts' = 2 => extracted' = extracted]_vars

\* v4.4.0 was cut to v4, and v4 came back from the second application
C13_Witness ==
    /\ token = V440
    /\ extracts = 2
    /\ extracted = V4

\* the number of the three kinds the token was found to be
Kinds(c) ==
    (IF c.CommitSHA THEN 1 ELSE 0) + (IF c.MajorConstraint THEN 1 ELSE 0)
    + (IF c.SemanticVersion THEN 1 ELSE 0)

\* C14, as claimed: every token other than main is exactly one of
\* CommitSHA, MajorConstraint and SemanticVersion (stated for the tokens
\* that have at least one character)
C14_TotalExclusive ==
    (class.done /\ token # Main /\ token # Empty) => Kinds(class) = 1

\* the token has a '.', and a character that is neither digit nor '.' and
\* is not the one leading 'v'
DottedNotNumeric(t) ==
    /\ HasDot(t)
    /\ \E i \in 1..Len(t) :
         /\ t[i] \notin Digits \cup { "." }
         /\ ~ (i = 1 /\ t[1] = "v")

\* C14, amended: no token is of two kinds; a token is of no kind exactly
\* when it is empty or has a '.' together with a character that is neither
\* digit nor '.' (the leading 'v' aside), and of exactly one kind otherwise;
\* a token of 40 hex characters is a CommitSHA only
C14_Exclusive ==
    class.done =>
      /\ Kinds(class) <= 1
      /\ Kinds(class) = 0 <=> (token = Empty \/ DottedNotNumeric(token))
      /\ FortyHex(token) => (class.CommitSHA /\ ~ class.MajorConstraint)

\* a token of 40 hex digits, without any '.', was found to be a commit SHA
\* and nothing else
C14_Witness ==
    /\ class.done
    /\ token = Digits40
    /\ class.CommitSHA
    /\ ~ class.MajorConstraint
    /\ ~ class.SemanticVersion

\* --------------------------------------- properties, the comment rewriter
\* the place of the first '#' of the line, 0 when it has none
FirstHash(l) ==
    IF \E i \in 1..Len(l) : l[i] = "#"
    THEN CHOOSE i \in 1..Len(l) : l[i] = "#" /\ \A j \in 1..(i - 1) : l[j] # "#"
    ELSE 0

\* the code part of the line: what stands before the first '#'
CodeLen(l) == IF FirstHash(l) = 0 THEN Len(l) ELSE FirstHash(l) - 1

\* the code part without the blanks it ends with
Base(l) ==
    LET solid == { i \in 1..CodeLen(l) : l[i] # " " }
    IN  IF solid = {} THEN Empty
        ELSE SubSeq(l, 1, CHOOSE i \in solid : \A j \in solid : j <= i)

\* the line has a '#' with nothing but whitespace after it
BlankAfterHash(l) ==
    /\ FirstHash(l) # 0
    /\ \A i \in (FirstHash(l) + 1)..Len(l) : IsSpace(l[i])

\* the code part of the line followed by " # " and the text
Annotated(l, text) == Base(l) \o << " ", "#", " " >> \o text

\* C15: on a line with no '#', or with a '#' followed only by whitespace,
\* updateVersionComment returns the code part without its trailing spaces,
\* followed by " # " and the display version, and nothing else
C15_NoComment ==
    (passes = 1 /\ (FirstHash(line) = 0 \/ BlankAfterHash(line)))
    => out = Annotated(line, display)

\* a line ending in two blanks, an empty comment and a blank was given the
\* display version v4.4.0
C15_Witness ==
    /\ passes = 1
    /\ line = CodePart \o << " ", " ", "#", " " >>
    /\ display = V440
    /\ out = CodePart \o << " ", "#", " " >> \o V440

\* digits and dots only, with at least one dot, after one leading 'v'
SemanticShape(t) ==
    LET b == IF HasPrefixV(t) THEN Tail(t) ELSE t
    IN  HasDot(b) /\ \A i \in 1..Len(b) : b[i] \in Digits \cup { "." }

\* digits only
NumericShape(t) == t # Empty /\ \A i \in 1..Len(t) : t[i] \in Digits

\* the word looks like a version: a 'v' followed by a semantic version, a
\* bare semantic version, or a bare major number
LooksLikeVersion(t) ==
    \/ HasPrefixV(t) /\ SemanticShape(Tail(t))
    \/ SemanticShape(t)
    \/ NumericShape(t)

\* the first word of the comment the line was written with
FirstWord == comment.words[1]

\* the comment has words and updateVersionComment has been applied once
Rewritten == passes = 1 /\ comment.words # << >>

\* C16: updateVersionComment replaces the first word of the comment by the
\* display version, keeping the words after it, exactly when that first
\* word looks like a version; a first word that does not look like one,
\* such as an ordinary word beginning with 'v', is not replaced
C16_FirstWordVersion ==
    Rewritten =>
      (LooksLikeVersion(FirstWord)
       <=> out = Annotated(line, Join(<< display >> \o Tail(comment.words),
                                      << " " >>)))

HasAt(t) == \E i \in 1..Len(t) : t[i] = "@"

\* what stands before the first '@' of the word
BeforeAt(t) ==
    SubSeq(t, 1, (CHOOSE i \in 1..Len(t) :
                    t[i] = "@" /\ \A j \in 1..(i - 1) : t[j] # "@") - 1)

\* C17: when the first word does not look like a version and contains '@',
\* updateVersionComment keeps what stands before its first '@', replaces
\* everything after that '@' by the display version and keeps the words
\* after it; so for every such word, also one with more than one '@'
C17_PinAnnotation ==
    (Rewritten /\ ~ LooksLikeVersion(FirstWord) /\ HasAt(FirstWord))
    => out = Annotated(line,
                 Join(<< BeforeAt(FirstWord) \o << "@" >> \o display >>
                      \o Tail(comment.words), << " " >>))

\* the places after the first of the words that look like a version
LaterVersions == { i \in 2..Len(comment.words) :
                     LooksLikeVersion(comment.words[i]) }

\* C18: when the first word neither looks like a version nor contains '@',
\* updateVersionComment replaces the first later word that looks like a
\* version by the display version and leaves every other word unchanged;
\* when no word looks like a version it puts the display version in front
\* and keeps the comment text after it as it was written
C18_FreeText ==
    (Rewritten /\ ~ LooksLikeVersion(FirstWord) /\ ~ HasAt(FirstWord))
    => IF LaterVersions # {}
       THEN out = Annotated(line,
                Join([comment.words EXCEPT
                        ![CHOOSE i \in LaterVersions :
                            \A j \in LaterVersions : i <= j] = display],
                     << " " >>))
       ELSE out = Annotated(line, display \o << " " >>
                                  \o Join(comment.words, comment.sep))

\* C19: updateVersionComment applied to its own result, with the same
\* display version, returns that result: for every line and every display
\* version
C19_RewriteIdempotent ==
    [][(passes = 1 /\ passes' = 2) => out' = out]_vars

\* --------------------------------------- properties, the file processor
\* the uses value u names its action at the floating branch: its version
\* token, the text after the '@', is exactly main
AtMain(u) ==
    LET parts == Split(u, "@")
    IN  Len(parts) = 2 /\ parts[2] = Main

\* the line holds owner/repo@main for the repository a/c
HoldsMainRef(ln) == ContainsSub(ln, RefTo(NameAC, Main))

\* the operation is at work on the file at fileIdx
AtWork == ppc \in { "uses", "await", "rewrite", "write" }

\* C20: in PinAction, PinAllActions and UpdateAction a uses value whose
\* version token is exactly main causes no resolver call and no rewrite,
\* and a line containing owner/repo@main is the same before and after the
\* operation, in the content the operation works on and in the file.
C20_FloatingBranchSkip ==
    /\ \A a \in asked :
         a[1] # 0 => ~ AtMain(ParseYAMLForUses(original[a[1]])[a[2]])
    /\ \A f \in 1..Len(original) : \A i \in 1..Len(original[f]) :
         HoldsMainRef(original[f][i]) =>
            /\ disk[f][i] = original[f][i]
            /\ (AtWork /\ f = fileIdx) => contentStr[i] = original[f][i]

\* the reference the rewrite under way is made for, actionName@currentVersion
RewriteTarget ==
    IF job.op = "PinAction" THEN RefTo(job.name, actionsToUpdate[job.name])
    ELSE usesValues[usesIdx]

\* the step rewrites contentStr
Rewrites == ppc \in { "await", "rewrite" } /\ contentStr' # contentStr

\* C21: a rewrite for (actionName, currentVersion) preserves the number of
\* lines and leaves every line byte-identical whose reference is not
\* exactly actionName@currentVersion: a different action, or the same
\* action at a different version token, such as one that currentVersion
\* is a proper prefix of.
C21_RewriteExact ==
    [][Rewrites =>
          /\ Len(contentStr') = Len(contentStr)
          /\ \A i \in 1..Len(contentStr) :
               UsesValue(contentStr[i]) # RewriteTarget
                   => contentStr'[i] = contentStr[i]]_vars

\* C22: when write is false, PinAction, PinAllActions and UpdateAction
\* never write to a file, whatever the resolver returns: the content of
\* every file stays what it was before the operation.
C22_DryRun == ~ job.write => disk = original

\* a dry run of PinAllActions has rewritten the first file in memory and
\* has passed the place where it would be written
C22_Witness ==
    /\ job.op = "PinAllActions"
    /\ ~ job.write
    /\ ppc = "read"
    /\ fileIdx = 2
    /\ contentModified
    /\ contentStr # original[1]

\* the file f of the sweep can be read and parsed
Readable(f) == faults[f] # "read" /\ ~ YAMLError(original[f])

\* the uses value u is a reference to resolve: action@token, token not main
ToResolve(u) ==
    LET parts == Split(u, "@")
    IN  Len(parts) = 2 /\ parts[2] # Main

\* the resolution r gave nothing to pin to
Failed(r) == r.err # "nil" \/ r.version = Empty \/ r.sha = Empty

\* C23: in a PinAllActions sweep a failure for one reference or one file
\* (an unreadable file, a YAML parse error, a resolver error, no release,
\* a write error) skips only that reference or file: when the sweep is
\* over the resolver has been asked for every reference to resolve of
\* every file that can be read and parsed, and a file whose resolutions
\* all failed is left as it was.
C23_FailureContainment ==
    (job.op = "PinAllActions" /\ ppc = "done") =>
        \A f \in 1..Len(original) :
            /\ Readable(f) =>
                 \A u \in 1..Len(ParseYAMLForUses(original[f])) :
                     ToResolve(ParseYAMLForUses(original[f])[u])
                         => \E a \in asked : a[1] = f /\ a[2] = u
            /\ (\A r \in answers : r[1] = f => Failed(r[3]))
                 => disk[f] = original[f]

\* a sweep of two files is over: the first could not be read, the second
\* was resolved and written
C23_Witness ==
    /\ job.op = "PinAllActions"
    /\ ppc = "done"
    /\ Len(original) > 1
    /\ faults[1] = "read"
    /\ \E a \in asked : a[1] > 1
    /\ disk # original

\* the text after the first '#' of the line, blanks trimmed; Empty when the
\* line has no comment
CommentOf(ln) ==
    IF Contains(ln, "#")
    THEN TrimSpace(SubSeq(ln, Index(ln, "#") + 1, Len(ln)))
    ELSE Empty

\* UpdateAction has advanced the reference of line i of the file at work
\* from a semantic version to the full version of the latest release
Advanced(i) ==
    /\ job.op = "UpdateAction"
    /\ ppc = "await"
    /\ IsVersionNumber(Split(usesValues[usesIdx], "@")[2])
    /\ UsesValue(contentStr[i]) = usesValues[usesIdx]
    /\ UsesValue(contentStr'[i]) = RefTo(job.name, result[Worker].version)
    /\ UsesValue(contentStr'[i]) # UsesValue(contentStr[i])

\* C24: when UpdateAction with write=true advances a semantic-version
\* reference to the latest full version, the version annotation of the
\* line is set to that version too: 'uses: A@v4.4.0 # v4.4.0' becomes
\* 'uses: A@v5.0.0 # v5.0.0' when v5.0.0 is the latest release.
C24_SemverAdvance ==
    [][\A i \in 1..Len(contentStr) :
          Advanced(i) => CommentOf(contentStr'[i]) = result[Worker].version
      ]_vars

\* UpdateAction with write=true finishes a major-constraint reference
\* whose latest release is in the same major line, the resolver having
\* returned without error
SameMajorUpdate ==
    /\ job.op = "UpdateAction"
    /\ job.write
    /\ ppc = "await"
    /\ ppc' = "uses"
    /\ result[Worker].err = "nil"
    /\ world[job.name].rel = "ok"
    /\ LET cv == Split(usesValues[usesIdx], "@")[2]
       IN  /\ isMajorVersionConstraint(cv)
           /\ extractMajorVersion(world[job.name].tag) = cv

\* C25: updating a major-constraint reference whose latest release is in
\* the same major line keeps the reference and advances the comment of
\* its line to the full version of that release ('uses: a/c@v4 # p@v4'
\* becomes 'uses: a/c@v4 # p@v4.4.0'), with a cold and with a warm cache.
C25_MajorKeepsReference ==
    [][SameMajorUpdate =>
          \A i \in 1..Len(contentStr) :
              (/\ UsesValue(contentStr[i]) = usesValues[usesIdx]
               /\ CommentOf(contentStr[i]) # Empty)
              => /\ UsesValue(contentStr'[i]) = usesValues[usesIdx]
                 /\ ContainsSub(CommentOf(contentStr'[i]),
                                world[job.name].tag)]_vars

\* PinAllActions, or the SHA branch of UpdateAction with write=true, has
\* resolved the reference RewriteTarget to a release and a SHA, both
\* non-empty, the current version not being that SHA already
PinResolves ==
    /\ ppc = "await"
    /\ ppc' = "uses"
    /\ result[Worker].err = "nil"
    /\ result[Worker].version # Empty
    /\ result[Worker].sha # Empty
    /\ LET cv == Split(usesValues[usesIdx], "@")[2]
       IN  /\ cv # result[Worker].sha
           /\ \/ job.op = "PinAllActions"
              \/ job.op = "UpdateAction" /\ job.write /\ isSHA(cv)

\* the reference written by the pin under way, actionName@latestSHA
PinnedRef ==
    RefTo(TrimSpace(Split(usesValues[usesIdx], "@")[1]), result[Worker].sha)

\* line after holds by where line before holds the first old, and shows
\* version shown in its comment; a line without a comment got the comment
\* appended
PinnedFrom(before, after, old, by, shown) ==
    LET k == IndexOf(before, old)
    IN  /\ Len(after) >= k + Len(by) - 1
        /\ SubSeq(after, 1, k - 1) = SubSeq(before, 1, k - 1)
        /\ SubSeq(after, k, k + Len(by) - 1) = by
        /\ ContainsSub(CommentOf(after), shown)
        /\ ~ Contains(before, "#") =>
              after = SubSeq(before, 1, k - 1) \o by
                      \o SubSeq(before, k + Len(old), Len(before))
                      \o << " ", "#", " " >> \o shown

\* C26 as stated: when PinAllActions (or the SHA branch of UpdateAction)
\* resolves A@cur to (latestRelease, latestSHA), both non-empty and cur
\* not latestSHA, every line containing A@cur ends up containing
\* A@latestSHA and carries a comment showing latestRelease.
C26_PinEveryLine ==
    [][PinResolves =>
          \A i \in 1..Len(contentStr) :
              ContainsSub(contentStr[i], RewriteTarget)
              => /\ ContainsSub(contentStr'[i], PinnedRef)
                 /\ ContainsSub(CommentOf(contentStr'[i]),
                                result[Worker].version)]_vars

\* C26: when PinAllActions (or the SHA branch of UpdateAction) resolves
\* A@cur to (latestRelease, latestSHA), both non-empty and cur not
\* latestSHA, every line whose reference is A@cur ends up with A@latestSHA
\* in place of the first A@cur and with a comment showing latestRelease; a
\* line with no comment gets ' # ' + latestRelease appended.
C26_PinPostcondition ==
    [][PinResolves =>
          \A i \in 1..Len(contentStr) :
              UsesValue(contentStr[i]) = RewriteTarget
              => PinnedFrom(contentStr[i], contentStr'[i], RewriteTarget,
                            PinnedRef, result[Worker].version)]_vars

\* PinAllActions has pinned the line '- uses: a/c@v4', which had no
\* comment, to a SHA and appended the comment ' # v4.4.0'
C26_Witness ==
    /\ job.op = "PinAllActions"
    /\ ppc = "uses"
    /\ fileIdx \in 1..Len(original)
    /\ original[fileIdx][1] = StepLine(RefTo(NameAC, V4), Empty)
    /\ contentStr[1] = StepLine(RefTo(NameAC, SHA1), NoteV440)

\* the version token of the reference of a step line
TokenOf(ln) == Split(UsesValue(ln), "@")[2]

\* C27: UpdateAction preserves a major-version constraint: a reference
\* a/c@v4 whose version token is a major constraint is never rewritten to
\* a different major version, even when the latest release of the action
\* belongs to a newer major line.
C27_MajorPreserved ==
    [][(job.op = "UpdateAction" /\ Rewrites) =>
          \A i \in 1..Len(contentStr) :
              (/\ HasPrefix(UsesValue(contentStr[i]), job.name \o At)
               /\ HasPrefixV(TokenOf(contentStr[i]))
               /\ isMajorVersionConstraint(TokenOf(contentStr[i])))
              => TokenOf(contentStr'[i]) = TokenOf(contentStr[i])]_vars

\* C28: PinAction(files, action, version) pins to the requested version:
\* whenever it rewrites the references to the action, the SHA it writes
\* was looked up for the release whose tag is the requested version, so
\* the SHA written and the version shown in the comment denote the same
\* release, also when the requested version is not the latest release.
C28_PinRequestedVersion ==
    [][(job.op = "PinAction" /\ ppc = "rewrite" /\ ppc' = "write") =>
          /\ world[job.name].tag = job.version
          /\ \A i \in 1..Len(contentStr) :
               UsesValue(contentStr[i]) = RewriteTarget
               => /\ UsesValue(contentStr'[i]) = RefTo(job.name, latestSHA)
                  /\ ContainsSub(CommentOf(contentStr'[i]), job.version)]_vars

\* the operation under way is a pin
Pinning == job.op \in { "PinAction", "PinAllActions" }

\* C29: every reference written by a pin operation carries an immutable
\* commit identifier: after PinAction or PinAllActions the version token
\* of each rewritten reference is a commit SHA of 40 hexadecimal
\* characters, never empty, a tag or a branch name, and every SHA the
\* release cache holds for a release is such a commit SHA.
C29_ImmutablePin ==
    /\ \A n \in DOMAIN releaseCache :
          releaseCache[n].SHA # Empty => isSHA(releaseCache[n].SHA)
    /\ Pinning =>
          \A f \in 1..Len(disk) : \A i \in 1..Len(disk[f]) :
              UsesValue(disk[f][i]) # UsesValue(original[f][i])
              => isSHA(TokenOf(disk[f][i]))

\* C30: for a fixed release state, the content PinAllActions produces for
\* a file does not depend on the files processed before it in the sweep:
\* at the end of a sweep with write=true, two files with the same content
\* before the sweep, both readable and writable, have the same content;
\* the reference a/c@v4 is pinned to the same SHA whether it is the first
\* or a later occurrence of a/c in the sweep.
C30_OrderIndependence ==
    (job.op = "PinAllActions" /\ job.write /\ ppc = "done") =>
        \A f, g \in 1..Len(disk) :
            (/\ original[f] = original[g]
             /\ faults[f] = "none"
             /\ faults[g] = "none")
            => disk[f] = disk[g]

====
